---- MODULE Spec2Model ----
(***************************************************************************)
(* pi-caffeinate: the keep-awake controller of src/index.ts.               *)
(*                                                                         *)
(* The file holds two variants of the extension: the multi-platform one    *)
(* (lines 84-134: error listener, process 'exit' hook) and the macOS-only  *)
(* one with a status indicator (lines 156-194: no error listener, no      *)
(* process 'exit' hook).  Both are modelled; `variant` says which one is   *)
(* loaded.  Helper processes are numbered 1..MaxSpawns in spawn order.     *)
(***************************************************************************)
EXTENDS Naturals, Sequences, FiniteSets

\* Bounds of the model.
MaxSpawns == 3          \* helpers spawned in one run
MaxLog == 4             \* events kept in the event history before it overflows

NULL == 0               \* `proc = null`

Variants == {"multi", "ui"}
Platforms == {"darwin", "linux", "win32", "freebsd"}
Helpers == 1..MaxSpawns

NoCommand == [cmd |-> "none"]
Overflow == <<"overflow">>
NoHelper == [st |-> "none", kills |-> 0, cmd |-> "none"]

VARIABLES
    variant,      \* which default export is loaded
    platform,     \* os.platform()
    proc,         \* the module-wide `proc`: NULL or the helper it refers to
    helper,       \* per helper: OS/callback state, kill() calls received, command
    spawned,      \* number of spawn() calls so far
    host,         \* the host process: "running", "exited", "crashed"
    status,       \* the footer status text under key "caffeinate" ("" = absent)
    raised,       \* an error has escaped from the extension's code
    lastSignal,   \* the most recent lifecycle signal ("none" before the first)
    log           \* the events delivered to the controller, or Overflow

vars == <<variant, platform, proc, helper, spawned, host, status, raised, lastSignal, log>>

(***************************************************************************)
(* inhibitCommand(): the command for the platform, NoCommand for `null`.   *)
(***************************************************************************)
inhibitCommand_noDefault(p) ==
    CASE p = "darwin" -> [cmd |-> "caffeinate"]
      [] p = "linux"  -> [cmd |-> "systemd-inhibit"]
      [] p = "win32"  -> [cmd |-> "powershell.exe"]
      [] OTHER        -> [cmd |-> "caffeinate"]

inhibitCommand(p) ==
    CASE p = "darwin" -> [cmd |-> "caffeinate"]
      [] p = "linux"  -> [cmd |-> "systemd-inhibit"]
      [] p = "win32"  -> [cmd |-> "powershell.exe"]
      [] OTHER        -> NoCommand

\* The command the loaded variant spawns.
command ==
    IF variant = "multi" THEN inhibitCommand(platform) ELSE [cmd |-> "caffeinate"]

\* The early return of the default export: are the handlers registered at all?
installed ==
    IF variant = "multi"
    THEN inhibitCommand(platform) # NoCommand
    ELSE platform = "darwin"

\* The event history: complete while it is short, Overflow afterwards.
Record(e) ==
    IF log = Overflow \/ Len(log) >= MaxLog THEN Overflow ELSE Append(log, e)

Init ==
    /\ variant \in Variants
    /\ platform \in Platforms
    /\ proc = NULL
    /\ helper = [h \in Helpers |-> NoHelper]
    /\ spawned = 0
    /\ host = "running"
    /\ status = ""
    /\ raised = FALSE
    /\ lastSignal = "none"
    /\ log = <<>>

(***************************************************************************)
(* Multi-platform variant: engage / disengage.  `ok` is whether the OS     *)
(* could launch the command; spawn() returns a ChildProcess either way.    *)
(***************************************************************************)
engage_noGuard(ok) ==
    /\ UNCHANGED raised
    /\ spawned' = spawned + 1
    /\ proc' = spawned + 1
    /\ helper' = [helper EXCEPT ![spawned + 1] =
                     [st |-> IF ok THEN "running" ELSE "failed",
                      kills |-> 0, cmd |-> command.cmd]]

engage(ok) ==
    IF proc # NULL
    THEN UNCHANGED <<proc, helper, spawned, raised>>    \* already running
    ELSE /\ UNCHANGED raised
         /\ spawned' = spawned + 1
         /\ proc' = spawned + 1
         /\ helper' = [helper EXCEPT ![spawned + 1] =
                          [st |-> IF ok THEN "running" ELSE "failed",
                           kills |-> 0, cmd |-> command.cmd]]

\* disengage without `proc = null` after the kill
disengage_keepsProc ==
    IF proc = NULL
    THEN UNCHANGED <<proc, helper, raised>>
    ELSE /\ helper' = [helper EXCEPT ![proc].kills = @ + 1]
         /\ UNCHANGED <<proc, raised>>

\* disengage without the kill
disengage_noKill ==
    IF proc = NULL
    THEN UNCHANGED <<proc, helper, raised>>
    ELSE /\ proc' = NULL
         /\ UNCHANGED <<helper, raised>>

\* disengage without `if (!proc) return`: null.kill() is a TypeError
disengage_noGuard ==
    IF proc = NULL
    THEN raised' = TRUE /\ UNCHANGED <<proc, helper>>
    ELSE /\ helper' = [helper EXCEPT ![proc].kills = @ + 1]
         /\ proc' = NULL
         /\ UNCHANGED raised

disengage ==
    IF proc = NULL
    THEN UNCHANGED <<proc, helper, raised>>
    ELSE /\ helper' = [helper EXCEPT ![proc].kills = @ + 1]   \* proc.kill()
         /\ proc' = NULL
         /\ UNCHANGED raised

(***************************************************************************)
(* Status-indicator variant: engage(ctx) / disengage(ctx).                 *)
(***************************************************************************)
engageUI(ok) ==
    IF proc # NULL
    THEN UNCHANGED <<proc, helper, spawned, status, raised>>  \* already running
    ELSE /\ UNCHANGED raised
         /\ spawned' = spawned + 1
         /\ proc' = spawned + 1
         /\ helper' = [helper EXCEPT ![spawned + 1] =
                          [st |-> IF ok THEN "running" ELSE "failed",
                           kills |-> 0, cmd |-> command.cmd]]
         /\ status' = "awake"

disengageUI ==
    /\ IF proc # NULL
       THEN /\ helper' = [helper EXCEPT ![proc].kills = @ + 1] \* proc.kill("SIGTERM")
            /\ proc' = NULL
       ELSE UNCHANGED <<proc, helper>>
    /\ status' = ""
    /\ UNCHANGED raised

\* A spawn() that could not launch its command reports it with an 'error'
\* event that Node queues with process.nextTick: the listener runs before the
\* event loop delivers anything else (a lifecycle signal, an 'exit' event).
errorPending == \E h \in Helpers : helper[h].st = "failed"

(***************************************************************************)
(* The handlers the host dispatches to, one lifecycle signal at a time.    *)
(* On an unsupported platform nothing was registered and the signal is     *)
(* delivered to nobody.                                                    *)
(***************************************************************************)
agent_start ==
    /\ host = "running"
    /\ ~errorPending
    /\ (installed /\ proc = NULL) => spawned < MaxSpawns
    /\ IF ~installed
       THEN UNCHANGED <<proc, helper, spawned, status, raised>>
       ELSE \E ok \in BOOLEAN :
               IF variant = "multi"
               THEN engage(ok) /\ UNCHANGED status
               ELSE engageUI(ok)
    /\ lastSignal' = "agent_start"
    /\ log' = Record("agent_start")
    /\ UNCHANGED <<variant, platform, host>>

\* What agent_end and session_shutdown both do.
onStop ==
    IF ~installed
    THEN UNCHANGED <<proc, helper, status, raised>>
    ELSE IF variant = "multi"
         THEN disengage /\ UNCHANGED status
         ELSE disengageUI

agent_end ==
    /\ host = "running"
    /\ ~errorPending
    /\ onStop
    /\ lastSignal' = "agent_end"
    /\ log' = Record("agent_end")
    /\ UNCHANGED <<variant, platform, host, spawned>>

session_shutdown ==
    /\ host = "running"
    /\ ~errorPending
    /\ onStop
    /\ lastSignal' = "session_shutdown"
    /\ log' = Record("session_shutdown")
    /\ UNCHANGED <<variant, platform, host, spawned>>

\* The host process exits; process.on("exit") exists in the multi-platform
\* variant only.
process_exit ==
    /\ host = "running"
    /\ host' = "exited"
    /\ IF installed /\ variant = "multi"
       THEN disengage
       ELSE UNCHANGED <<proc, helper, raised>>
    /\ log' = Record("host_exit")
    /\ UNCHANGED <<variant, platform, spawned, status, lastSignal>>

(***************************************************************************)
(* The helper process and its ChildProcess events.                         *)
(***************************************************************************)
\* The OS process ends: killed by the controller's signal, by someone else,
\* or on its own.  Node queues the 'exit' event.
HelperDies(h) ==
    /\ host = "running"
    /\ ~errorPending
    /\ helper[h].st = "running"
    /\ helper' = [helper EXCEPT ![h].st = "dead"]
    /\ UNCHANGED <<variant, platform, proc, spawned, host, status, raised, lastSignal, log>>

onExit_keepsProc(h) ==
    UNCHANGED <<proc, raised>>

\* proc.on("exit", () => { proc = null; })
onExit(h) ==
    proc' = NULL /\ UNCHANGED raised

\* proc.on("error", () => { proc = null; }); the status-indicator variant
\* registers no 'error' listener, and an 'error' event nobody listens to is
\* thrown by the emitter: an uncaught exception in the host.
onError(h) ==
    IF variant = "multi"
    THEN proc' = NULL /\ UNCHANGED <<host, raised>>
    ELSE raised' = TRUE /\ host' = "crashed" /\ UNCHANGED proc

exitCallback(h) ==
    /\ host = "running"
    /\ ~errorPending
    /\ helper[h].st = "dead"
    /\ helper' = [helper EXCEPT ![h].st = "reaped"]
    /\ onExit(h)
    /\ log' = Record("exit")
    /\ UNCHANGED <<variant, platform, spawned, host, status, lastSignal>>

errorCallback(h) ==
    /\ host = "running"
    /\ helper[h].st = "failed"
    /\ helper' = [helper EXCEPT ![h].st = "errored"]
    /\ onError(h)
    /\ log' = Record("error")
    /\ UNCHANGED <<variant, platform, spawned, status, lastSignal>>

Next ==
    \/ agent_start
    \/ agent_end
    \/ session_shutdown
    \/ process_exit
    \/ \E h \in Helpers : HelperDies(h)
    \/ \E h \in Helpers : exitCallback(h)
    \/ \E h \in Helpers : errorCallback(h)

Spec == Init /\ [][Next]_vars

TypeOK ==
    /\ variant \in Variants
    /\ platform \in Platforms
    /\ proc \in {NULL} \cup Helpers
    /\ spawned \in 0..MaxSpawns
    /\ host \in {"running", "exited", "crashed"}
    /\ status \in {"", "awake"}
    /\ raised \in BOOLEAN
    /\ lastSignal \in {"none", "agent_start", "agent_end", "session_shutdown"}
    /\ \A h \in Helpers :
          /\ helper[h].st \in {"none", "running", "failed", "dead", "reaped", "errored"}
          /\ helper[h].kills \in 0..1
          /\ (helper[h].st = "none") <=> (h > spawned)
(***************************************************************************)
(* What the claims speak of.                                               *)
(***************************************************************************)
\* Helpers that keep the machine awake and that nobody has asked to stop:
\* the OS process runs and the controller has sent it no signal.
Inhibiting == {h \in Helpers : helper[h].st = "running" /\ helper[h].kills = 0}

Signals == {"agent_start", "agent_end", "session_shutdown", "host_exit"}

IsSignal(e) == e \in Signals

\* The lifecycle signals of the event history, callbacks left out.
SignalsOf(l) == SelectSeq(l, IsSignal)

\* The platforms neither variant has a mechanism for.
Unsupported ==
    IF variant = "multi"
    THEN platform \notin {"darwin", "linux", "win32"}
    ELSE platform # "darwin"

\* C1: at most one helper process is live at any time.  Helpers that were
\* already sent a termination signal are left out of the count, so that the
\* time a signalled process takes to die is not held against the controller.
C1_AtMostOneLiveHelper ==
    Cardinality(Inhibiting) <= 1

\* C2: while the most recent lifecycle signal is agent_end or session_shutdown,
\* or before the first agent_start, no helper is running unsignalled.
C2_NoHelperWhenNotWorking ==
    lastSignal \in {"none", "agent_end", "session_shutdown"} => Inhibiting = {}

\* C3: once the process 'exit' hook has run, every helper that was spawned and
\* has not exited has been sent a termination signal.  (Stated for the variant
\* that registers the hook.)
C3_ExitHookCleansUp ==
    (variant = "multi" /\ host = "exited") => Inhibiting = {}

\* C4: a helper that fails to launch is absorbed: delivering its 'error' event
\* raises nothing in the host, leaves the handle null and spawns nothing.
C4_LaunchFailureAbsorbed ==
    [][\A h \in Helpers :
          (helper[h].st = "failed" /\ helper'[h].st = "errored")
              => (~raised' /\ host' = "running" /\ proc' = NULL /\ spawned' = spawned)]_vars
\* C5: a helper that exits on its own while the handle refers to it: delivering
\* its 'exit' event makes the handle null with no termination call, the handle
\* then stays null until an agent_start, and an agent_start that finds the
\* handle null spawns exactly one new helper and makes the handle refer to it.
C5_SelfExitClearsHandleThenRespawn ==
    [][/\ \A h \in Helpers :
            (helper[h].st = "dead" /\ helper'[h].st = "reaped" /\ proc = h)
                => (proc' = NULL /\ helper'[h].kills = helper[h].kills)
       /\ (proc = NULL /\ proc' # NULL) => agent_start
       /\ (agent_start /\ installed /\ proc = NULL)
            => /\ spawned' = spawned + 1
               /\ proc' = spawned'
               /\ helper[proc'].st = "none"
               /\ helper'[proc'].st \in {"running", "failed"}
               /\ \A h \in Helpers : h # proc' => helper'[h] = helper[h]]_vars

C5_Witness ==
    /\ log = <<"agent_start", "exit", "agent_start">>
    /\ helper[1].st = "reaped" /\ helper[1].kills = 0
    /\ proc = 2 /\ spawned = 2 /\ helper[2].st = "running"

\* C6: an agent_start delivered while the handle is non-null spawns nothing and
\* leaves the handle where it was, so two agent_start signals in a row from the
\* initial state spawn exactly one helper.
C6_EngageIdempotent ==
    [][/\ (agent_start /\ proc # NULL)
            => (proc' = proc /\ spawned' = spawned /\ helper' = helper)
       /\ (installed /\ log' = <<"agent_start", "agent_start">>)
            => (spawned' = 1 /\ proc' = 1)]_vars

C6_Witness ==
    /\ log = <<"agent_start", "agent_start">>
    /\ spawned = 1 /\ proc = 1 /\ helper[1].st = "running"

\* C7: with the handle null, agent_end, session_shutdown and the process 'exit'
\* hook each leave the handle null, spawn nothing, issue no termination call
\* and raise no error.
C7_DisengageWhenIdleIsNoOp ==
    [][(proc = NULL /\ (agent_end \/ session_shutdown \/ process_exit))
          => /\ proc' = NULL
             /\ spawned' = spawned
             /\ helper' = helper
             /\ raised' = raised
             /\ host' # "crashed"]_vars

C7_Witness ==
    /\ installed /\ variant = "multi"
    /\ log = <<"agent_start", "agent_end", "session_shutdown", "host_exit">>
    /\ proc = NULL /\ helper[1].kills = 1 /\ ~raised

\* C8: on an unsupported platform no sequence of signals spawns a helper,
\* issues a termination call or raises an error.
C8_UnsupportedPlatformIsNoOp ==
    Unsupported
        => /\ spawned = 0
           /\ proc = NULL
           /\ \A h \in Helpers : helper[h] = NoHelper
           /\ ~raised
           /\ host # "crashed"

C8_Witness ==
    /\ variant = "multi" /\ platform = "freebsd"
    /\ log = <<"agent_start", "agent_end", "session_shutdown", "host_exit">>
    /\ spawned = 0

\* The two orders of C9's scenario.
StartThenBothStops ==
    {<<"agent_start", "session_shutdown", "agent_end">>,
     <<"agent_start", "agent_end", "session_shutdown">>}

\* C9: after agent_start followed by session_shutdown and agent_end in either
\* order the handle is null, exactly one helper was spawned, it is not left
\* running unsignalled, and it has received exactly one termination call.  The
\* second conjunct covers the runs in which the helper's own 'exit' or 'error'
\* event is delivered somewhere among the three signals: the same holds, except
\* that a helper whose event came before the first stop signal (the handle was
\* null already) has received no termination call.
C9_StartThenBothStops ==
    /\ (installed /\ log \in StartThenBothStops)
          => /\ proc = NULL
             /\ spawned = 1
             /\ Inhibiting = {}
             /\ helper[1].kills = 1
    /\ (installed /\ log # Overflow /\ SignalsOf(log) \in StartThenBothStops)
          => /\ proc = NULL
             /\ spawned = 1
             /\ Inhibiting = {}
             /\ helper[1].kills = (IF log[2] \in {"exit", "error"} THEN 0 ELSE 1)

C9_Witness ==
    /\ installed
    /\ log = <<"agent_start", "session_shutdown", "agent_end">>
    /\ proc = NULL /\ spawned = 1 /\ helper[1].kills = 1

\* C10: a termination call goes to the helper of the most recent spawn, which
\* is the one the handle refers to; no helper receives more than one; and the
\* sequence [agent_start, agent_end] is one spawn, then one termination call on
\* that helper, ending with the handle null.
C10_SpawnAndKillPaired ==
    [][/\ \A h \in Helpers :
            helper'[h].kills # helper[h].kills
                => (h = spawned /\ h = proc /\ helper'[h].kills = 1)
       /\ (installed /\ log' = <<"agent_start", "agent_end">>)
            => (spawned' = 1 /\ helper'[1].kills = 1 /\ proc' = NULL)]_vars

C10_Witness ==
    /\ installed
    /\ log = <<"agent_start", "agent_end">>
    /\ spawned = 1 /\ helper[1].kills = 1 /\ helper[1].st = "running" /\ proc = NULL
\* C11: when the host process exits while the agent is working (agent_start
\* was the last lifecycle signal) the process 'exit' hook issues exactly one
\* termination call, on the current helper, and nothing else changes hands;
\* when it exits after agent_end or session_shutdown, or before any signal,
\* the hook issues none.  (Stated for the variant that registers the hook,
\* and for a current helper that is still running: a helper that has already
\* exited needs no call.)
C11_ExitHookKillsCurrentHelperOnce ==
    [][(process_exit /\ installed /\ variant = "multi")
          => /\ (lastSignal = "agent_start" /\ helper[spawned].st = "running")
                   => /\ helper'[spawned].kills = helper[spawned].kills + 1
                      /\ \A h \in Helpers : h # spawned => helper'[h] = helper[h]
             /\ lastSignal \in {"none", "agent_end", "session_shutdown"}
                   => helper' = helper]_vars

\* C12: a helper is spawned only by an agent_start that finds the handle null:
\* no other step (a helper's 'exit' or 'error' delivery, agent_end,
\* session_shutdown, the process 'exit' hook) spawns, and none but that
\* agent_start adds to the helpers keeping the machine awake.
C12_SpawnOnlyOnAgentStartWhenIdle ==
    [][/\ (spawned' # spawned \/ \E h \in Helpers : helper[h].st = "none" /\ helper'[h].st # "none")
            => /\ agent_start
               /\ proc = NULL
               /\ spawned' = spawned + 1
               /\ \A h \in Helpers : h # spawned' => helper'[h] = helper[h]
       /\ ~(Inhibiting' \subseteq Inhibiting) => (agent_start /\ proc = NULL)
       /\ \A h \in Helpers :
            (helper[h].st \in {"dead", "failed"} /\ helper'[h].st \in {"reaped", "errored"})
                => (spawned' = spawned /\ Inhibiting' = Inhibiting)]_vars

C12_Witness ==
    /\ installed
    /\ log = <<"agent_start", "exit", "agent_end", "session_shutdown">>
    /\ spawned = 1 /\ helper[1].st = "reaped" /\ helper[1].kills = 0
    /\ proc = NULL /\ Inhibiting = {}
\* C13: in the variant with the status indicator, the indicator is shown
\* exactly while the handle is non-null, also after the helper exited on its
\* own.
C13_IndicatorIffActive ==
    (variant = "ui" /\ host = "running") => (status = "awake" <=> proc # NULL)

\* C14: the 'exit' or 'error' event of one helper, delivered while the handle
\* refers to another helper, leaves the handle on that other helper.
C14_CallbackClearsOnlyItsOwnHelper ==
    [][\A h \in Helpers :
          (/\ helper[h].st \in {"dead", "failed"}
           /\ helper'[h].st \in {"reaped", "errored"}
           /\ proc # NULL
           /\ proc # h)
              => proc' = proc]_vars

\* C15: every helper that runs and has not been sent a termination signal is
\* the one the handle refers to; with the handle null there is none.
C15_NoOrphanedHelper ==
    \A h \in Inhibiting : proc = h

\* A listener of the controller has run for helper h: its 'exit' listener, or
\* its 'error' listener (which only the multi-platform variant registers).
Observed(h) ==
    \/ helper[h].st = "reaped"
    \/ helper[h].st = "errored" /\ variant = "multi"

\* C16: a non-null handle refers to the most recently spawned helper, which
\* the controller has sent no termination call and whose 'exit' or 'error'
\* listener has not run.
C16_HandleIsLatestUnkilledUnobserved ==
    proc # NULL
        => /\ proc = spawned
           /\ helper[proc].st # "none"
           /\ helper[proc].kills = 0
           /\ ~Observed(proc)

C16_Witness ==
    /\ log = <<"agent_start", "agent_end", "agent_start">>
    /\ proc = 2 /\ spawned = 2
    /\ helper[1].kills = 1 /\ helper[2].kills = 0 /\ helper[2].st = "running"
====
